---------------------------- MODULE Spec2Model ----------------------------
(***************************************************************************)
(* Model of the in-memory diary backend (src/index.js): the account store, *)
(* the login-state map, the diary store and the HTTP handlers over them.   *)
(*                                                                         *)
(* Strings are sequences of one-character strings, so that trim, split,    *)
(* toLowerCase and the date pattern are computed character by character.   *)
(* A JavaScript value is a record [t, s, a]: t is its type tag, s the      *)
(* characters of a string (the decimal digits of a number), a the elements *)
(* of an array (each a record [t, s]).                                     *)
(***************************************************************************)
EXTENDS Integers, Sequences, FiniteSets, TLC

VARIABLES
    nextMemberId,     \* let nextMemberId
    membersByEmail,   \* Map: key -> {memberId, name, email, password}
    loginState,       \* Map: key -> 0/1
    diaryByDate,      \* Map: date -> {todo, contents, thanks}
    google,           \* the /auth/google handlers that are suspended at an await
    req,              \* the request handled last
    res               \* the response sent last

vars == <<nextMemberId, membersByEmail, loginState, diaryByDate, google, req, res>>
stores == <<nextMemberId, membersByEmail, loginState, diaryByDate>>
accountStores == <<nextMemberId, membersByEmail, loginState>>

-----------------------------------------------------------------------------
(* Strings *)

Whitespace == {" ", "\t"}

Digits == {"0", "1", "2", "3", "4", "5", "6", "7", "8", "9"}

\* UTF-16 code unit of a character, for the characters the model uses.
CharCode(c) ==
    CASE c = "\t" -> 9   [] c = " " -> 32 [] c = "," -> 44 [] c = "-" -> 45
      [] c = "0" -> 48 [] c = "1" -> 49 [] c = "2" -> 50 [] c = "3" -> 51
      [] c = "4" -> 52 [] c = "5" -> 53 [] c = "6" -> 54 [] c = "7" -> 55
      [] c = "8" -> 56 [] c = "9" -> 57 [] c = "A" -> 65 [] c = "B" -> 66
      [] c = "G" -> 71 [] c = "a" -> 97 [] c = "b" -> 98 [] c = "c" -> 99
      [] c = "d" -> 100 [] c = "e" -> 101 [] c = "g" -> 103 [] c = "h" -> 104
      [] c = "i" -> 105 [] c = "l" -> 108 [] c = "n" -> 110 [] c = "o" -> 111
      [] c = "p" -> 112 [] c = "q" -> 113 [] c = "t" -> 116 [] c = "u" -> 117
      [] c = "y" -> 121
      [] OTHER -> 0

\* String.prototype.trim
RECURSIVE trimStart(_)
trimStart(s) ==
    IF s # <<>> /\ Head(s) \in Whitespace THEN trimStart(Tail(s)) ELSE s

RECURSIVE trimEnd(_)
trimEnd(s) ==
    IF s # <<>> /\ s[Len(s)] \in Whitespace
    THEN trimEnd(SubSeq(s, 1, Len(s) - 1)) ELSE s

trim(s) == trimEnd(trimStart(s))

\* String.prototype.toLowerCase
lowerChar(c) == CASE c = "A" -> "a" [] c = "B" -> "b" [] c = "G" -> "g" [] OTHER -> c

toLowerCase(s) == [i \in 1..Len(s) |-> lowerChar(s[i])]

\* String.prototype.split(sep) for a one-character separator: the pieces
\* between the separators, empty pieces included.
RECURSIVE splitFrom(_, _, _)
splitFrom(s, sep, piece) ==
    IF s = <<>> THEN <<piece>>
    ELSE IF Head(s) = sep THEN <<piece>> \o splitFrom(Tail(s), sep, <<>>)
    ELSE splitFrom(Tail(s), sep, Append(piece, Head(s)))

split(s, sep) == splitFrom(s, sep, <<>>)

\* The order of Array.prototype.sort without a comparator: by code units.
RECURSIVE strLess(_, _)
strLess(x, y) ==
    IF y = <<>> THEN FALSE
    ELSE IF x = <<>> THEN TRUE
    ELSE IF CharCode(Head(x)) # CharCode(Head(y))
         THEN CharCode(Head(x)) < CharCode(Head(y))
    ELSE strLess(Tail(x), Tail(y))

RECURSIVE insertSorted(_, _)
insertSorted(sorted, x) ==
    IF sorted = <<>> THEN <<x>>
    ELSE IF strLess(x, Head(sorted)) THEN <<x>> \o sorted
    ELSE <<Head(sorted)>> \o insertSorted(Tail(sorted), x)

RECURSIVE sort(_)
sort(xs) ==
    IF xs = <<>> THEN <<>> ELSE insertSorted(sort(SubSeq(xs, 1, Len(xs) - 1)), xs[Len(xs)])

-----------------------------------------------------------------------------
(* JavaScript values *)

Undefined == [t |-> "undefined", s |-> <<>>, a |-> <<>>]
Null == [t |-> "null", s |-> <<>>, a |-> <<>>]
JSStr(s) == [t |-> "string", s |-> s, a |-> <<>>]
JSNum(digits) == [t |-> "number", s |-> digits, a |-> <<>>]
JSArr(elems) == [t |-> "array", s |-> <<>>, a |-> elems]

\* Array elements
EStr(s) == [t |-> "string", s |-> s]
ENum(digits) == [t |-> "number", s |-> digits]
ENull == [t |-> "null", s |-> <<>>]

\* !v : undefined, null, "" and 0 are falsy; arrays are truthy.
falsy(v) ==
    \/ v.t \in {"undefined", "null"}
    \/ v.t = "string" /\ v.s = <<>>
    \/ v.t = "number" /\ v.s = <<"0">>

\* String(v) for the values the handlers apply it to.
String(v) ==
    CASE v.t = "string" -> v.s
      [] v.t = "number" -> v.s
      [] v.t = "null" -> <<"n", "u", "l", "l">>
      [] v.t = "undefined" -> <<"u", "n", "d", "e", "f", "i", "n", "e", "d">>
      [] OTHER -> v.s

-----------------------------------------------------------------------------
(* Map: a sequence of [key, val] in insertion order, keys distinct *)

mapHas(m, k) == \E i \in 1..Len(m) : m[i].key = k

mapIndex(m, k) == CHOOSE i \in 1..Len(m) : m[i].key = k

\* Map.prototype.get; the caller tests mapHas first where the code tests the result
mapGet(m, k) == m[mapIndex(m, k)].val

\* Map.prototype.set: an existing key keeps its place, a new key goes last
mapSet(m, k, v) ==
    IF mapHas(m, k)
    THEN [m EXCEPT ![mapIndex(m, k)] = [key |-> k, val |-> v]]
    ELSE Append(m, [key |-> k, val |-> v])

mapKeys(m) == {m[i].key : i \in 1..Len(m)}

-----------------------------------------------------------------------------
(* Helpers of index.js *)

isValidString(v) == v.t = "string" /\ Len(trim(v.s)) > 0

\* /^\d{4}-\d{2}-\d{2}$/.test(s)
datePattern(s) ==
    /\ Len(s) = 10
    /\ \A i \in {1, 2, 3, 4, 6, 7, 9, 10} : s[i] \in Digits
    /\ s[5] = "-"
    /\ s[8] = "-"

\* normalizeDate that tests the trimmed string but returns the one it was given
normalizeDateUntrimmed(date) ==
    IF ~isValidString(date) THEN Null
    ELSE LET s == trim(date.s)
         IN  IF datePattern(s) THEN JSStr(date.s) ELSE Null

normalizeDate(date) ==
    IF ~isValidString(date) THEN Null
    ELSE LET s == trim(date.s)
         IN  IF datePattern(s) THEN JSStr(s) ELSE Null

RECURSIVE filterNonEmpty(_)
filterNonEmpty(xs) ==
    IF xs = <<>> THEN <<>>
    ELSE IF Len(Head(xs).s) > 0 THEN <<Head(xs)>> \o filterNonEmpty(Tail(xs))
    ELSE filterNonEmpty(Tail(xs))

\* normalizeTodo whose string branch keeps the pieces as split() returns them
normalizeTodoUntrimmedPieces(todo) ==
    IF todo.t = "array"
    THEN JSArr(filterNonEmpty(
             [i \in 1..Len(todo.a) |->
                 IF todo.a[i].t = "string" THEN EStr(trim(todo.a[i].s)) ELSE EStr(<<>>)]))
    ELSE IF todo.t = "string"
    THEN LET pieces == split(todo.s, ",")
         IN  JSArr(filterNonEmpty([i \in 1..Len(pieces) |-> EStr(pieces[i])]))
    ELSE JSArr(<<>>)

normalizeTodo(todo) ==
    IF todo.t = "array"
    THEN JSArr(filterNonEmpty(
             [i \in 1..Len(todo.a) |->
                 IF todo.a[i].t = "string" THEN EStr(trim(todo.a[i].s)) ELSE EStr(<<>>)]))
    ELSE IF todo.t = "string"
    THEN LET pieces == split(todo.s, ",")
         IN  JSArr(filterNonEmpty([i \in 1..Len(pieces) |-> EStr(trim(pieces[i]))]))
    ELSE JSArr(<<>>)

\* the loop of getHaveArrays over diaryByDate.entries(): the dates pushed, in
\* the Map's iteration order
keysOf(entries) == [i \in 1..Len(entries) |-> entries[i].key]

hasContents(entry) == isValidString(entry.contents)
hasTodos(entry) == entry.todo.t = "array" /\ Len(entry.todo.a) > 0

\* getHaveArrays without the two sort() calls
getHaveArraysUnsorted ==
    [haveContents |-> keysOf(SelectSeq(diaryByDate, LAMBDA e : hasContents(e.val))),
     haveTodos |-> keysOf(SelectSeq(diaryByDate, LAMBDA e : hasTodos(e.val)))]

getHaveArrays ==
    [haveContents |-> sort(keysOf(SelectSeq(diaryByDate, LAMBDA e : hasContents(e.val)))),
     haveTodos |-> sort(keysOf(SelectSeq(diaryByDate, LAMBDA e : hasTodos(e.val))))]

-----------------------------------------------------------------------------
(* Requests and responses *)

\* req.body as express.json() leaves it: an object whose absent fields read
\* as undefined, or no body at all
Body(todo, contents, thanks) ==
    [t |-> "object", todo |-> todo, contents |-> contents, thanks |-> thanks]
NoBody == [t |-> "undefined", todo |-> Undefined, contents |-> Undefined, thanks |-> Undefined]

\* req.body || {}
bodyOrEmpty(body) ==
    IF body.t = "undefined" THEN Body(Undefined, Undefined, Undefined) ELSE body

emptyEntry == [todo |-> JSArr(<<>>), contents |-> JSStr(<<>>), thanks |-> JSStr(<<>>)]

invalidDate == [status |-> 400, body |-> [error |-> "invalid date format (YYYY-MM-DD)"]]

DiaryReq(op, date, body) == [op |-> op, date |-> date, body |-> body]

-----------------------------------------------------------------------------
(* Diary routes *)

\* contents / thanks stored without the trim()
normalizeTextUntrimmed(v) == IF isValidString(v) THEN v ELSE JSStr(<<>>)

\* contents / thanks of a written entry
normalizeText(v) == IF isValidString(v) THEN JSStr(trim(v.s)) ELSE JSStr(<<>>)

haveFlags(entry) == [haveContents |-> hasContents(entry), haveTodos |-> hasTodos(entry)]

\* app.get("/Home")
GetHome ==
    /\ req' = [op |-> "GET /Home"]
    /\ res' = [status |-> 200, body |-> getHaveArrays]
    /\ UNCHANGED <<stores, google>>

\* POST without the date gate: the trimmed parameter is the key
PostDiaryUngated(dateParam, body) ==
    LET b == bodyOrEmpty(body)
        entry == [todo |-> normalizeTodo(b.todo),
                  contents |-> normalizeText(b.contents),
                  thanks |-> normalizeText(b.thanks)]
    IN  /\ req' = DiaryReq("POST /diary", dateParam, body)
        /\ diaryByDate' = mapSet(diaryByDate, trim(dateParam.s), entry)
        /\ res' = [status |-> 200, body |-> haveFlags(entry)]
        /\ UNCHANGED <<accountStores, google>>

\* POST that keeps the fields the body leaves out, as PUT does
PostDiaryMerging(dateParam, body) ==
    LET date == normalizeDate(dateParam)
        prev == IF mapHas(diaryByDate, date.s) THEN mapGet(diaryByDate, date.s) ELSE emptyEntry
        b == bodyOrEmpty(body)
        entry == [todo |-> IF b.todo = Undefined THEN prev.todo ELSE normalizeTodo(b.todo),
                  contents |-> IF b.contents = Undefined THEN prev.contents
                               ELSE normalizeText(b.contents),
                  thanks |-> IF b.thanks = Undefined THEN prev.thanks
                             ELSE normalizeText(b.thanks)]
    IN  /\ req' = DiaryReq("POST /diary", dateParam, body)
        /\ IF falsy(date)
           THEN /\ res' = invalidDate
                /\ UNCHANGED diaryByDate
           ELSE /\ diaryByDate' = mapSet(diaryByDate, date.s, entry)
                /\ res' = [status |-> 200, body |-> haveFlags(entry)]
        /\ UNCHANGED <<accountStores, google>>

\* app.post("/diary/:date")
PostDiary(dateParam, body) ==
    LET date == normalizeDate(dateParam)
        b == bodyOrEmpty(body)
        entry == [todo |-> normalizeTodo(b.todo),
                  contents |-> normalizeText(b.contents),
                  thanks |-> normalizeText(b.thanks)]
    IN  /\ req' = DiaryReq("POST /diary", dateParam, body)
        /\ IF falsy(date)
           THEN /\ res' = invalidDate
                /\ UNCHANGED diaryByDate
           ELSE /\ diaryByDate' = mapSet(diaryByDate, date.s, entry)
                /\ res' = [status |-> 200, body |-> haveFlags(entry)]
        /\ UNCHANGED <<accountStores, google>>

\* GetDiary that stores the default entry it answers with for a date without
\* entry
GetDiaryCreating(dateParam) ==
    LET date == normalizeDate(dateParam)
    IN  /\ req' = DiaryReq("GET /diary", dateParam, NoBody)
        /\ IF falsy(date)
           THEN /\ res' = invalidDate
                /\ UNCHANGED diaryByDate
           ELSE /\ res' = [status |-> 200,
                           body |-> IF mapHas(diaryByDate, date.s)
                                    THEN mapGet(diaryByDate, date.s) ELSE emptyEntry]
                /\ diaryByDate' = IF mapHas(diaryByDate, date.s) THEN diaryByDate
                                  ELSE mapSet(diaryByDate, date.s, emptyEntry)
        /\ UNCHANGED <<accountStores, google>>

\* app.get("/diary/:date")
GetDiary(dateParam) ==
    LET date == normalizeDate(dateParam)
    IN  /\ req' = DiaryReq("GET /diary", dateParam, NoBody)
        /\ IF falsy(date)
           THEN res' = invalidDate
           ELSE res' = [status |-> 200,
                        body |-> IF mapHas(diaryByDate, date.s)
                                 THEN mapGet(diaryByDate, date.s) ELSE emptyEntry]
        /\ UNCHANGED <<stores, google>>

\* PUT with `todo == null` in place of `todo === undefined`: null counts as
\* not provided
PutDiaryLooseEquality(dateParam, body) ==
    LET date == normalizeDate(dateParam)
        prev == IF mapHas(diaryByDate, date.s) THEN mapGet(diaryByDate, date.s) ELSE emptyEntry
        b == bodyOrEmpty(body)
        updated == [todo |-> IF b.todo \in {Undefined, Null} THEN prev.todo
                             ELSE normalizeTodo(b.todo),
                    contents |-> IF b.contents \in {Undefined, Null} THEN prev.contents
                                 ELSE normalizeText(b.contents),
                    thanks |-> IF b.thanks \in {Undefined, Null} THEN prev.thanks
                               ELSE normalizeText(b.thanks)]
    IN  /\ req' = DiaryReq("PUT /diary", dateParam, body)
        /\ IF falsy(date)
           THEN /\ res' = invalidDate
                /\ UNCHANGED diaryByDate
           ELSE /\ diaryByDate' = mapSet(diaryByDate, date.s, updated)
                /\ res' = [status |-> 200, body |-> haveFlags(updated)]
        /\ UNCHANGED <<accountStores, google>>

\* PUT that writes every field, as POST does
PutDiaryReplacing(dateParam, body) ==
    LET date == normalizeDate(dateParam)
        b == bodyOrEmpty(body)
        updated == [todo |-> normalizeTodo(b.todo),
                    contents |-> normalizeText(b.contents),
                    thanks |-> normalizeText(b.thanks)]
    IN  /\ req' = DiaryReq("PUT /diary", dateParam, body)
        /\ IF falsy(date)
           THEN /\ res' = invalidDate
                /\ UNCHANGED diaryByDate
           ELSE /\ diaryByDate' = mapSet(diaryByDate, date.s, updated)
                /\ res' = [status |-> 200, body |-> haveFlags(updated)]
        /\ UNCHANGED <<accountStores, google>>

\* PutDiary that merges into an empty object when the date has no entry
PutDiaryNoDefault(dateParam, body) ==
    LET date == normalizeDate(dateParam)
        prev == IF ~falsy(date) /\ mapHas(diaryByDate, date.s) THEN mapGet(diaryByDate, date.s)
                ELSE [todo |-> Undefined, contents |-> Undefined, thanks |-> Undefined]
        b == bodyOrEmpty(body)
        updated == [todo |-> IF b.todo = Undefined THEN prev.todo ELSE normalizeTodo(b.todo),
                    contents |-> IF b.contents = Undefined THEN prev.contents
                                 ELSE normalizeText(b.contents),
                    thanks |-> IF b.thanks = Undefined THEN prev.thanks
                               ELSE normalizeText(b.thanks)]
    IN  /\ req' = DiaryReq("PUT /diary", dateParam, body)
        /\ IF falsy(date)
           THEN /\ res' = invalidDate
                /\ UNCHANGED diaryByDate
           ELSE /\ diaryByDate' = mapSet(diaryByDate, date.s, updated)
                /\ res' = [status |-> 200, body |-> haveFlags(updated)]
        /\ UNCHANGED <<accountStores, google>>

\* app.put("/diary/:date")
PutDiary(dateParam, body) ==
    LET date == normalizeDate(dateParam)
        prev == IF mapHas(diaryByDate, date.s) THEN mapGet(diaryByDate, date.s) ELSE emptyEntry
        b == bodyOrEmpty(body)
        updated == [todo |-> IF b.todo = Undefined THEN prev.todo ELSE normalizeTodo(b.todo),
                    contents |-> IF b.contents = Undefined THEN prev.contents
                                 ELSE normalizeText(b.contents),
                    thanks |-> IF b.thanks = Undefined THEN prev.thanks
                               ELSE normalizeText(b.thanks)]
    IN  /\ req' = DiaryReq("PUT /diary", dateParam, body)
        /\ IF falsy(date)
           THEN /\ res' = invalidDate
                /\ UNCHANGED diaryByDate
           ELSE /\ diaryByDate' = mapSet(diaryByDate, date.s, updated)
                /\ res' = [status |-> 200, body |-> haveFlags(updated)]
        /\ UNCHANGED <<accountStores, google>>

-----------------------------------------------------------------------------
(* Account routes *)

AccountReq(op, email, name, password) ==
    [op |-> op, email |-> email, name |-> name, password |-> password]

GoogleReq(step, input) == [op |-> "POST /auth/google", step |-> step, input |-> input]

\* no response is sent in this step: the handler is suspended at an await
noResponse == [status |-> 0]

\* `반갑습니다, ${member.name} 님!`
greeting(member) == [welcome |-> member.name]

GoogleUser == JSStr(<<"G", "o", "o", "g", "l", "e", " ", "U", "s", "e", "r">>)

\* app.get("/")
GetRoot ==
    /\ req' = [op |-> "GET /"]
    /\ res' = [status |-> 200, body |-> [ok |-> TRUE, message |-> "Server is running"]]
    /\ UNCHANGED <<stores, google>>

\* SignUp whose key is trimmed but keeps its letter case
SignUpCaseSensitive(email, name, password) ==
    /\ req' = AccountReq("POST /SignUp", email, name, password)
    /\ IF ~isValidString(email) \/ ~isValidString(name) \/ ~isValidString(password)
       THEN /\ res' = [status |-> 400, body |-> [error |-> "email, name, password are required"]]
            /\ UNCHANGED accountStores
       ELSE LET key == trim(email.s)
                member == [memberId |-> nextMemberId,
                           name |-> JSStr(trim(name.s)),
                           email |-> JSStr(key),
                           password |-> JSStr(String(password))]
            IN  IF mapHas(membersByEmail, key)
                THEN /\ res' = [status |-> 409, body |-> [error |-> "email already exists"]]
                     /\ UNCHANGED accountStores
                ELSE /\ nextMemberId' = nextMemberId + 1
                     /\ membersByEmail' = mapSet(membersByEmail, key, member)
                     /\ loginState' = mapSet(loginState, key, 0)
                     /\ res' = [status |-> 200,
                                body |-> [memberId |-> member.memberId, name |-> member.name,
                                          email |-> member.email]]
    /\ UNCHANGED <<diaryByDate, google>>

\* SignUp that leaves the id counter where it was
SignUpKeepingCounter(email, name, password) ==
    /\ req' = AccountReq("POST /SignUp", email, name, password)
    /\ IF ~isValidString(email) \/ ~isValidString(name) \/ ~isValidString(password)
       THEN /\ res' = [status |-> 400, body |-> [error |-> "email, name, password are required"]]
            /\ UNCHANGED accountStores
       ELSE LET key == toLowerCase(trim(email.s))
                member == [memberId |-> nextMemberId,
                           name |-> JSStr(trim(name.s)),
                           email |-> JSStr(key),
                           password |-> JSStr(String(password))]
            IN  IF mapHas(membersByEmail, key)
                THEN /\ res' = [status |-> 409, body |-> [error |-> "email already exists"]]
                     /\ UNCHANGED accountStores
                ELSE /\ nextMemberId' = nextMemberId
                     /\ membersByEmail' = mapSet(membersByEmail, key, member)
                     /\ loginState' = mapSet(loginState, key, 0)
                     /\ res' = [status |-> 200,
                                body |-> [memberId |-> member.memberId, name |-> member.name,
                                          email |-> member.email]]
    /\ UNCHANGED <<diaryByDate, google>>

\* SignUp that stores no login state for the record it creates
SignUpWithoutLoginState(email, name, password) ==
    /\ req' = AccountReq("POST /SignUp", email, name, password)
    /\ IF ~isValidString(email) \/ ~isValidString(name) \/ ~isValidString(password)
       THEN /\ res' = [status |-> 400, body |-> [error |-> "email, name, password are required"]]
            /\ UNCHANGED accountStores
       ELSE LET key == toLowerCase(trim(email.s))
                member == [memberId |-> nextMemberId,
                           name |-> JSStr(trim(name.s)),
                           email |-> JSStr(key),
                           password |-> JSStr(String(password))]
            IN  IF mapHas(membersByEmail, key)
                THEN /\ res' = [status |-> 409, body |-> [error |-> "email already exists"]]
                     /\ UNCHANGED accountStores
                ELSE /\ nextMemberId' = nextMemberId + 1
                     /\ membersByEmail' = mapSet(membersByEmail, key, member)
                     /\ UNCHANGED loginState
                     /\ res' = [status |-> 200,
                                body |-> [memberId |-> member.memberId, name |-> member.name,
                                          email |-> member.email]]
    /\ UNCHANGED <<diaryByDate, google>>

\* app.post("/SignUp")
SignUp(email, name, password) ==
    /\ req' = AccountReq("POST /SignUp", email, name, password)
    /\ IF ~isValidString(email) \/ ~isValidString(name) \/ ~isValidString(password)
       THEN /\ res' = [status |-> 400, body |-> [error |-> "email, name, password are required"]]
            /\ UNCHANGED accountStores
       ELSE LET key == toLowerCase(trim(email.s))
                member == [memberId |-> nextMemberId,
                           name |-> JSStr(trim(name.s)),
                           email |-> JSStr(key),
                           password |-> JSStr(String(password))]
            IN  IF mapHas(membersByEmail, key)
                THEN /\ res' = [status |-> 409, body |-> [error |-> "email already exists"]]
                     /\ UNCHANGED accountStores
                ELSE /\ nextMemberId' = nextMemberId + 1
                     /\ membersByEmail' = mapSet(membersByEmail, key, member)
                     /\ loginState' = mapSet(loginState, key, 0)
                     /\ res' = [status |-> 200,
                                body |-> [memberId |-> member.memberId, name |-> member.name,
                                          email |-> member.email]]
    /\ UNCHANGED <<diaryByDate, google>>

\* app.post("/Login")
Login(email, password) ==
    /\ req' = AccountReq("POST /Login", email, Undefined, password)
    /\ IF ~isValidString(email) \/ ~isValidString(password)
       THEN /\ res' = [status |-> 400, body |-> [error |-> "email and password are required"]]
            /\ UNCHANGED loginState
       ELSE LET key == toLowerCase(trim(email.s))
            IN  IF \/ ~mapHas(membersByEmail, key)
                   \/ String(mapGet(membersByEmail, key).password) # String(password)
                THEN /\ res' = [status |-> 401,
                                body |-> [error |-> "invalid credentials", isLogined |-> 0]]
                     /\ UNCHANGED loginState
                ELSE /\ loginState' = mapSet(loginState, key, 1)
                     /\ res' = [status |-> 200,
                                body |-> [message |-> greeting(mapGet(membersByEmail, key)),
                                          isLogined |-> 1]]
    /\ UNCHANGED <<nextMemberId, membersByEmail, diaryByDate, google>>

\* Logout without the loginState.has(key) test
LogoutUnchecked(email) ==
    /\ req' = AccountReq("POST /Home", email, Undefined, Undefined)
    /\ IF isValidString(email)
       THEN loginState' = mapSet(loginState, toLowerCase(trim(email.s)), 0)
       ELSE UNCHANGED loginState
    /\ res' = [status |-> 200, body |-> [isLogined |-> 0]]
    /\ UNCHANGED <<nextMemberId, membersByEmail, diaryByDate, google>>

\* app.post("/Home")
Logout(email) ==
    /\ req' = AccountReq("POST /Home", email, Undefined, Undefined)
    /\ IF isValidString(email) /\ mapHas(loginState, toLowerCase(trim(email.s)))
       THEN loginState' = mapSet(loginState, toLowerCase(trim(email.s)), 0)
       ELSE UNCHANGED loginState
    /\ res' = [status |-> 200, body |-> [isLogined |-> 0]]
    /\ UNCHANGED <<nextMemberId, membersByEmail, diaryByDate, google>>

\* the most /auth/google handlers suspended at an await at one time
MaxGoogle == 1

\* app.post("/auth/google") up to the first await (the token exchange); env
\* tells whether process.env holds the three GOOGLE_* settings
GoogleStart(code, env) ==
    /\ req' = GoogleReq("request", [code |-> code, env |-> env])
    /\ IF ~isValidString(code)
       THEN /\ res' = [status |-> 400, body |-> [message |-> "code missing"]]
            /\ UNCHANGED google
       ELSE IF ~env
       THEN /\ res' = [status |-> 500, body |-> [message |-> "Google env vars missing"]]
            /\ UNCHANGED google
       ELSE /\ google.token + google.userinfo < MaxGoogle
            /\ google' = [google EXCEPT !.token = @ + 1]
            /\ res' = noResponse
    /\ UNCHANGED stores

\* a handler resumes after the token exchange: to the catch block, to the
\* 401 for a missing access_token, or on to the second await (userinfo)
GoogleToken(tokenRes) ==
    /\ google.token > 0
    /\ req' = GoogleReq("token", tokenRes)
    /\ IF tokenRes.threw
       THEN /\ res' = [status |-> 500, body |-> [message |-> "Google OAuth failed"]]
            /\ google' = [google EXCEPT !.token = @ - 1]
       ELSE IF falsy(tokenRes.access_token)
       THEN /\ res' = [status |-> 401, body |-> [message |-> "no access_token from google"]]
            /\ google' = [google EXCEPT !.token = @ - 1]
       ELSE /\ res' = noResponse
            /\ google' = [google EXCEPT !.token = @ - 1, !.userinfo = @ + 1]
    /\ UNCHANGED stores

\* a resumed handler that creates or finds the record, and logs it in, before
\* it looks whether the userinfo holds an email at all
GoogleUserinfoEagerCreate(userRes) ==
    /\ google.userinfo > 0
    /\ req' = GoogleReq("userinfo", userRes)
    /\ google' = [google EXCEPT !.userinfo = @ - 1]
    /\ IF userRes.threw
       THEN /\ res' = [status |-> 500, body |-> [message |-> "Google OAuth failed"]]
            /\ UNCHANGED accountStores
       ELSE LET key == toLowerCase(String(userRes.email))
                displayName == IF isValidString(userRes.name) THEN userRes.name ELSE GoogleUser
                created == [memberId |-> nextMemberId, name |-> displayName,
                            email |-> JSStr(key), password |-> Null]
                m == mapGet(membersByEmail, key)
                members == IF ~mapHas(membersByEmail, key)
                           THEN mapSet(membersByEmail, key, created)
                           ELSE IF ~isValidString(m.name)
                           THEN mapSet(membersByEmail, key, [m EXCEPT !.name = displayName])
                           ELSE membersByEmail
                member == mapGet(members, key)
            IN  /\ membersByEmail' = members
                /\ nextMemberId' = IF mapHas(membersByEmail, key) THEN nextMemberId
                                   ELSE nextMemberId + 1
                /\ loginState' = mapSet(loginState, key, 1)
                /\ res' = IF falsy(userRes.email)
                          THEN [status |-> 401,
                                body |-> [message |-> "email not found from userinfo"]]
                          ELSE [status |-> 200,
                                body |-> [message |-> greeting(member), isLogined |-> 1,
                                          memberId |-> member.memberId, email |-> member.email]]
    /\ UNCHANGED diaryByDate

\* a handler resumes after the userinfo fetch and runs to its response
GoogleUserinfo(userRes) ==
    /\ google.userinfo > 0
    /\ req' = GoogleReq("userinfo", userRes)
    /\ google' = [google EXCEPT !.userinfo = @ - 1]
    /\ IF userRes.threw
       THEN /\ res' = [status |-> 500, body |-> [message |-> "Google OAuth failed"]]
            /\ UNCHANGED accountStores
       ELSE IF falsy(userRes.email)
       THEN /\ res' = [status |-> 401, body |-> [message |-> "email not found from userinfo"]]
            /\ UNCHANGED accountStores
       ELSE LET key == toLowerCase(String(userRes.email))
                displayName == IF isValidString(userRes.name) THEN userRes.name ELSE GoogleUser
                created == [memberId |-> nextMemberId, name |-> displayName,
                            email |-> JSStr(key), password |-> Null]
                m == mapGet(membersByEmail, key)
                members == IF ~mapHas(membersByEmail, key)
                           THEN mapSet(membersByEmail, key, created)
                           ELSE IF ~isValidString(m.name)
                           THEN mapSet(membersByEmail, key, [m EXCEPT !.name = displayName])
                           ELSE membersByEmail
                member == mapGet(members, key)
            IN  /\ membersByEmail' = members
                /\ nextMemberId' = IF mapHas(membersByEmail, key) THEN nextMemberId
                                   ELSE nextMemberId + 1
                /\ loginState' = mapSet(loginState, key, 1)
                /\ res' = [status |-> 200,
                           body |-> [message |-> greeting(member), isLogined |-> 1,
                                     memberId |-> member.memberId, email |-> member.email]]
    /\ UNCHANGED diaryByDate

-----------------------------------------------------------------------------
(* The earlier Google login of part_000: an id token verified by the library *)

LoginGoogleReq(step, input) == [op |-> "POST /Login/google", step |-> step, input |-> input]

\* app.post("/Login/google") up to its await (googleClient.verifyIdToken)
LoginGoogleStart(idToken) ==
    /\ req' = LoginGoogleReq("request", idToken)
    /\ IF falsy(idToken)
       THEN /\ res' = [status |-> 400, body |-> [error |-> "idToken is required"]]
            /\ UNCHANGED google
       ELSE /\ google.verify < MaxGoogle
            /\ google' = [google EXCEPT !.verify = @ + 1]
            /\ res' = noResponse
    /\ UNCHANGED stores

\* a handler resumes after verifyIdToken: to the catch block when the
\* verification threw or when email.toLowerCase is not a function, to the 400
\* for a payload without email, or through to its response
LoginGoogleVerify(ticket) ==
    /\ google.verify > 0
    /\ req' = LoginGoogleReq("verify", ticket)
    /\ google' = [google EXCEPT !.verify = @ - 1]
    /\ IF ticket.threw
       THEN /\ res' = [status |-> 401, body |-> [error |-> "Invalid Google token"]]
            /\ UNCHANGED accountStores
       ELSE IF falsy(ticket.email)
       THEN /\ res' = [status |-> 400, body |-> [error |-> "email not found in token"]]
            /\ UNCHANGED accountStores
       ELSE IF ticket.email.t # "string"
       THEN /\ res' = [status |-> 401, body |-> [error |-> "Invalid Google token"]]
            /\ UNCHANGED accountStores
       ELSE LET key == toLowerCase(ticket.email.s)
                name == IF falsy(ticket.name) THEN GoogleUser ELSE ticket.name
                created == [memberId |-> nextMemberId, name |-> name,
                            email |-> JSStr(key), password |-> Null]
                members == IF ~mapHas(membersByEmail, key)
                           THEN mapSet(membersByEmail, key, created)
                           ELSE membersByEmail
                member == mapGet(members, key)
            IN  /\ membersByEmail' = members
                /\ nextMemberId' = IF mapHas(membersByEmail, key) THEN nextMemberId
                                   ELSE nextMemberId + 1
                /\ loginState' = mapSet(loginState, key, 1)
                /\ res' = [status |-> 200,
                           body |-> [message |-> greeting(member), isLogined |-> 1,
                                     memberId |-> member.memberId, email |-> member.email]]
    /\ UNCHANGED diaryByDate

-----------------------------------------------------------------------------
(* Inputs *)

\* the most whitespace characters around a date parameter
MaxPad == 1

pad(s, k) == [i \in 1..k |-> " "] \o s \o [i \in 1..k |-> "\t"]

Date1 == <<"2", "0", "2", "4", "-", "0", "5", "-", "0", "1">>
Date2 == <<"1", "9", "9", "9", "-", "1", "2", "-", "3", "1">>
NotADate == <<"n", "o", "t", "-", "a", "-", "d", "a", "t", "e">>

DateParams == {JSStr(pad(d, k)) : d \in {Date1, Date2, NotADate}, k \in 0..MaxPad}

ScenarioBody ==
    \* {todo:"a, b ,,c", contents:" hi ", thanks:""}
    Body(JSStr(<<"a", ",", " ", "b", " ", ",", ",", "c">>), JSStr(<<" ", "h", "i", " ">>),
         JSStr(<<>>))
ThanksOnly == Body(Undefined, Undefined, JSStr(<<"t", "y">>))
ContentsOnly == Body(Undefined, JSStr(<<"h", "i", " ">>), Undefined)
\* an array with an untrimmed string, a number, a blank string and a null
TodoOnly ==
    Body(JSArr(<<EStr(<<" ", "a">>), ENum(<<"5">>), EStr(<<" ">>), EStr(<<"b", "\t">>), ENull,
                 EStr(<<"c">>)>>),
         Undefined, Undefined)
\* every field provided, none a usable value
Blanks == Body(Null, JSNum(<<"5">>), JSStr(<<" ", "\t">>))

Bodies == {ScenarioBody, ThanksOnly, ContentsOnly, TodoOnly, Blanks, NoBody}

EmailA == JSStr(<<"a">>)
EmailPadded == JSStr(<<" ", "A", "\t">>)
EmailB == JSStr(<<"b">>)
NameN == JSStr(<<" ", "n">>)
PasswordP == JSStr(<<"p">>)
PasswordNull == JSStr(<<"n", "u", "l", "l">>)

SignUpEmails == {Undefined, EmailA, EmailPadded}
Names == {Undefined, NameN}
Passwords == {PasswordP, PasswordNull}
Codes == {Undefined, JSStr(<<"c">>)}

TokenRes(threw, access_token) == [threw |-> threw, access_token |-> access_token]
TokenResponses ==
    {TokenRes(TRUE, Undefined), TokenRes(FALSE, Undefined), TokenRes(FALSE, JSStr(<<"t">>))}

UserRes(threw, email, name) == [threw |-> threw, email |-> email, name |-> name]
UserResponses ==
    {UserRes(TRUE, Undefined, Undefined), UserRes(FALSE, Undefined, JSStr(<<"G">>))}
    \cup {UserRes(FALSE, e, n) : e \in {JSStr(<<"A">>), EmailPadded},
                                 n \in {Undefined, JSStr(<<"G">>)}}

IdTokens == {Undefined, JSStr(<<"i">>)}
Ticket(threw, email, name) == [threw |-> threw, email |-> email, name |-> name]
\* what verifyIdToken gives: it throws, or a payload without email, with an
\* email that is no string, or with an email and perhaps a name
Tickets ==
    {Ticket(TRUE, Undefined, Undefined), Ticket(FALSE, Undefined, JSStr(<<"G">>)),
     Ticket(FALSE, JSNum(<<"5">>), Undefined)}
    \cup {Ticket(FALSE, e, n) : e \in {JSStr(<<"A">>), EmailPadded},
                                n \in {Undefined, JSStr(<<"G">>)}}

-----------------------------------------------------------------------------
(* Specifications *)

Init ==
    /\ nextMemberId = 1
    /\ membersByEmail = <<>>
    /\ loginState = <<>>
    /\ diaryByDate = <<>>
    /\ google = [token |-> 0, userinfo |-> 0, verify |-> 0]
    /\ req = [op |-> "none"]
    /\ res = noResponse

DiaryStep(dates, bodies) ==
    \/ GetHome
    \/ \E d \in dates, b \in bodies : PostDiary(d, b)
    \/ \E d \in dates : GetDiary(d)
    \/ \E d \in dates, b \in bodies : PutDiary(d, b)

AccountStep(emails, passwords, userResponses) ==
    \/ GetRoot
    \/ \E e \in emails, n \in Names, p \in passwords : SignUp(e, n, p)
    \/ \E e \in emails \cup {EmailB}, p \in passwords \cup {Undefined} : Login(e, p)
    \/ \E e \in emails \cup {EmailB} : Logout(e)
    \/ \E c \in Codes, env \in BOOLEAN : GoogleStart(c, env)
    \/ \E t \in TokenResponses : GoogleToken(t)
    \/ \E u \in userResponses : GoogleUserinfo(u)

\* the diary routes alone
DiaryNext == DiaryStep(DateParams, Bodies)
SpecDiary == Init /\ [][DiaryNext]_vars

\* the account routes alone
AccountNext == AccountStep(SignUpEmails, Passwords, UserResponses)
SpecAccount == Init /\ [][AccountNext]_vars

\* the account routes of part_000, whose Google login verifies an id token
IdTokenNext ==
    \/ GetRoot
    \/ \E e \in SignUpEmails, n \in Names, p \in Passwords : SignUp(e, n, p)
    \/ \E e \in SignUpEmails \cup {EmailB}, p \in Passwords \cup {Undefined} : Login(e, p)
    \/ \E e \in SignUpEmails \cup {EmailB} : Logout(e)
    \/ \E i \in IdTokens : LoginGoogleStart(i)
    \/ \E t \in Tickets : LoginGoogleVerify(t)
SpecIdToken == Init /\ [][IdTokenNext]_vars

\* every route, over fewer dates, request bodies, emails and passwords
Next ==
    \/ DiaryStep({JSStr(Date2)} \cup {JSStr(pad(d, k)) : d \in {Date1, NotADate}, k \in 0..MaxPad},
                 {ScenarioBody, ThanksOnly})
    \/ AccountStep({Undefined, EmailPadded}, {PasswordP},
                   {UserRes(TRUE, Undefined, Undefined), UserRes(FALSE, JSStr(<<"A">>), Undefined)})
Spec == Init /\ [][Next]_vars

-----------------------------------------------------------------------------
(* Properties of the diary routes *)

DiaryOps == {"POST /diary", "GET /diary", "PUT /diary"}

\* what the spec calls the normalized triple of a request body
trimmedOrEmpty(v) == IF v.t = "string" THEN JSStr(trim(v.s)) ELSE JSStr(<<>>)
writtenTriple(body) ==
    [todo |-> normalizeTodo(bodyOrEmpty(body).todo),
     contents |-> trimmedOrEmpty(bodyOrEmpty(body).contents),
     thanks |-> trimmedOrEmpty(bodyOrEmpty(body).thanks)]

\* the entry the store holds for a date, or the empty default
entryAt(store, key) == IF mapHas(store, key) THEN mapGet(store, key) ELSE emptyEntry

noSurroundingWhitespace(s) ==
    s = <<>> \/ (s[1] \notin Whitespace /\ s[Len(s)] \notin Whitespace)

\* C1: a POST, GET or PUT /diary/:date whose date the normalizer rejects is
\* answered 400 and leaves every store as it was; a diary request answered 200,
\* and any change of the diary store, has passed the date gate.
C1_InvalidDateTouchesNothing ==
    [][/\ (req'.op \in DiaryOps /\ falsy(normalizeDate(req'.date)))
            => (res'.status = 400 /\ UNCHANGED stores)
       /\ (req'.op \in DiaryOps /\ res'.status = 200) => ~falsy(normalizeDate(req'.date))
       /\ diaryByDate' # diaryByDate
            => (req'.op \in {"POST /diary", "PUT /diary"} /\ ~falsy(normalizeDate(req'.date)))
      ]_vars

C1_Witness ==
    /\ req.op = "PUT /diary"
    /\ falsy(normalizeDate(req.date))
    /\ res.status = 400
    /\ diaryByDate # <<>>
    /\ membersByEmail # <<>>

\* C2: a GET /diary/d that immediately follows a successful POST /diary/d
\* returns exactly the normalized triple of the POST's body.
C2_ReplaceThenRead ==
    [][(/\ req.op = "POST /diary"
        /\ res.status = 200
        /\ req'.op = "GET /diary"
        /\ normalizeDate(req'.date) = normalizeDate(req.date))
       => (res'.status = 200 /\ res'.body = writtenTriple(req.body))]_vars

\* a POST that left fields out has overwritten the entry of a date stored before
\* another one
C2_Witness ==
    /\ req.op = "POST /diary"
    /\ res.status = 200
    /\ req.body = ThanksOnly
    /\ Len(diaryByDate) = 2
    /\ diaryByDate[1].key = normalizeDate(req.date).s
    /\ diaryByDate[1].val = writtenTriple(ThanksOnly)

\* C3: after PUT /diary/d with a valid date, each field of the entry at d is
\* the previous entry's value (the empty default if there was none) when the
\* body does not provide the field, and the field's POST normalization when it
\* does, null, empty and non-string values included.
C3_MergePerField ==
    [][(req'.op = "PUT /diary" /\ ~falsy(normalizeDate(req'.date)))
       => LET key == normalizeDate(req'.date).s
              prev == entryAt(diaryByDate, key)
              b == bodyOrEmpty(req'.body)
              new == mapGet(diaryByDate', key)
          IN  /\ mapHas(diaryByDate', key)
              /\ new.todo = IF b.todo = Undefined THEN prev.todo ELSE writtenTriple(b).todo
              /\ new.contents = IF b.contents = Undefined THEN prev.contents
                                ELSE writtenTriple(b).contents
              /\ new.thanks = IF b.thanks = Undefined THEN prev.thanks
                              ELSE writtenTriple(b).thanks]_vars

\* a PUT with only contents has kept a non-empty todo list and thanks
C3_Witness ==
    /\ req.op = "PUT /diary"
    /\ req.body = ContentsOnly
    /\ res.status = 200
    /\ LET e == entryAt(diaryByDate, normalizeDate(req.date).s)
       IN  Len(e.todo.a) > 0 /\ e.thanks.s # <<>> /\ e.contents.s = <<"h", "i">>

\* C4: PUT /diary/d with no field provided, on a date that has an entry,
\* leaves the diary store and the result of Summarize unchanged.
C4_EmptyPutIsNoOp ==
    [][(/\ req'.op = "PUT /diary"
        /\ bodyOrEmpty(req'.body) = Body(Undefined, Undefined, Undefined)
        /\ ~falsy(normalizeDate(req'.date))
        /\ mapHas(diaryByDate, normalizeDate(req'.date).s))
       => (diaryByDate' = diaryByDate /\ getHaveArrays' = getHaveArrays)]_vars

\* a PUT with no field has answered for a date whose entry is not the default
C4_Witness ==
    /\ req.op = "PUT /diary"
    /\ bodyOrEmpty(req.body) = Body(Undefined, Undefined, Undefined)
    /\ res.status = 200
    /\ Len(diaryByDate) = 2
    /\ LET e == entryAt(diaryByDate, normalizeDate(req.date).s)
       IN  Len(e.todo.a) > 0 /\ e.thanks.s # <<>> /\ e.contents.s # <<>>

strictlyAscending(dates) ==
    \A i \in 1..(Len(dates) - 1) : strLess(dates[i], dates[i + 1])

\* C5: GET /Home answers with haveContents = the stored dates whose contents
\* are non-empty and haveTodos = the stored dates whose todo list is non-empty,
\* each list strictly ascending (so without repeats).
C5_SummaryExactAndSorted ==
    req.op = "GET /Home" =>
        /\ res.status = 200
        /\ strictlyAscending(res.body.haveContents)
        /\ strictlyAscending(res.body.haveTodos)
        /\ {res.body.haveContents[i] : i \in 1..Len(res.body.haveContents)}
             = {diaryByDate[i].key : i \in {j \in 1..Len(diaryByDate) :
                                             diaryByDate[j].val.contents.s # <<>>}}
        /\ {res.body.haveTodos[i] : i \in 1..Len(res.body.haveTodos)}
             = {diaryByDate[i].key : i \in {j \in 1..Len(diaryByDate) :
                                             diaryByDate[j].val.todo.a # <<>>}}

\* the later date was stored first; one date is in both lists, the other in
\* neither
C5_Witness ==
    /\ req.op = "GET /Home"
    /\ Len(diaryByDate) = 2
    /\ strLess(diaryByDate[2].key, diaryByDate[1].key)
    /\ \E i \in 1..2 : /\ diaryByDate[i].val.contents.s = <<>>
                       /\ diaryByDate[i].val.todo.a = <<>>
                       /\ diaryByDate[i].val.thanks.s # <<>>
    /\ Len(res.body.haveContents) = 1
    /\ Len(res.body.haveTodos) = 1

wellFormedEntry(e) ==
    /\ e.todo.t = "array"
    /\ \A i \in 1..Len(e.todo.a) :
          /\ e.todo.a[i].t = "string"
          /\ e.todo.a[i].s # <<>>
          /\ noSurroundingWhitespace(e.todo.a[i].s)
    /\ e.contents.t = "string" /\ noSurroundingWhitespace(e.contents.s)
    /\ e.thanks.t = "string" /\ noSurroundingWhitespace(e.thanks.s)

\* C6: every stored diary entry has a todo list of non-empty trimmed strings
\* and contents and thanks that are strings without surrounding whitespace.
C6_EntriesWellFormed ==
    \A i \in 1..Len(diaryByDate) : wellFormedEntry(diaryByDate[i].val)

\* a PUT has created an entry from the empty default and one provided field
C6_Witness ==
    /\ req.op = "PUT /diary"
    /\ req.body = TodoOnly
    /\ res.status = 200
    /\ Len(diaryByDate) = 2
    /\ diaryByDate[2].key = normalizeDate(req.date).s
    /\ diaryByDate[2].val.contents.s = <<>>
    /\ Len(diaryByDate[2].val.todo.a) = 3
    /\ diaryByDate[1].val.thanks.s # <<>>

-----------------------------------------------------------------------------
(* Properties of the account routes *)

\* the spec's EmailKey: the lowercased, trimmed email
emailKey(email) == toLowerCase(trim(email.s))

memberIds(members) == {members[i].val.memberId : i \in 1..Len(members)}

nonEmptyString(v) == v.t = "string" /\ trim(v.s) # <<>>

\* C7: a Register with non-empty email, name and password is answered 409 and
\* changes no record, login flag or id counter when a record exists under the
\* lowercase-trimmed email; otherwise it creates a record there with an id no
\* record has and sets the login state of that key to false.
C7_RegisterConflictOrCreate ==
    [][(/\ req'.op = "POST /SignUp"
        /\ nonEmptyString(req'.email)
        /\ nonEmptyString(req'.name)
        /\ nonEmptyString(req'.password))
       => LET key == emailKey(req'.email)
          IN  IF mapHas(membersByEmail, key)
              THEN res'.status = 409 /\ UNCHANGED accountStores
              ELSE /\ res'.status = 200
                   /\ mapHas(membersByEmail', key)
                   /\ mapGet(membersByEmail', key).memberId \notin memberIds(membersByEmail)
                   /\ mapGet(membersByEmail', key).memberId = res'.body.memberId
                   /\ mapGet(membersByEmail', key).password = req'.password
                   /\ mapHas(loginState', key)
                   /\ mapGet(loginState', key) = 0
                   /\ \A i \in 1..Len(membersByEmail) : membersByEmail'[i] = membersByEmail[i]
                   /\ \A i \in 1..Len(loginState) : loginState'[i] = loginState[i]]_vars

\* a Register in other letter case and with surrounding whitespace has met a
\* record that external authentication created, logged in
C7_Witness ==
    /\ req.op = "POST /SignUp"
    /\ req.email = EmailPadded
    /\ res.status = 409
    /\ mapHas(membersByEmail, emailKey(req.email))
    /\ mapGet(membersByEmail, emailKey(req.email)).password = Null
    /\ mapGet(loginState, emailKey(req.email)) = 1

\* the record's stored credential is the supplied password
credentialMatches(members, key, password) ==
    /\ mapHas(members, key)
    /\ mapGet(members, key).password.t = "string"
    /\ mapGet(members, key).password.s = password.s

\* C8: a Login with non-empty email and password is answered 200, and sets the
\* login state of the lowercase-trimmed email to true, exactly when a record
\* exists for that email and its stored credential is the supplied password;
\* otherwise it is answered 401, or 400 for a missing field, and changes no
\* record and no login flag.
C8_LoginIffCredentialMatches ==
    [][req'.op = "POST /Login"
       => IF nonEmptyString(req'.email) /\ nonEmptyString(req'.password)
          THEN IF credentialMatches(membersByEmail, emailKey(req'.email), req'.password)
               THEN /\ res'.status = 200
                    /\ mapGet(loginState', emailKey(req'.email)) = 1
                    /\ UNCHANGED <<nextMemberId, membersByEmail>>
               ELSE res'.status = 401 /\ UNCHANGED accountStores
          ELSE res'.status = 400 /\ UNCHANGED accountStores]_vars

\* C9: when external authentication succeeds with an email, a record exists
\* afterwards under the email's key: a new one with an id no record had and no
\* credential if there was none, else the old one with its id and credential,
\* its name changed only if it was blank; the login state of that key is true.
C9_ExternalAuthCreatesOrKeeps ==
    [][(/\ req'.op = "POST /auth/google"
        /\ req'.step = "userinfo"
        /\ ~req'.input.threw
        /\ nonEmptyString(req'.input.email))
       => LET key == emailKey(req'.input.email)
          IN  /\ res'.status = 200
              /\ mapHas(membersByEmail', key)
              /\ IF mapHas(membersByEmail, key)
                 THEN LET old == mapGet(membersByEmail, key)
                          new == mapGet(membersByEmail', key)
                      IN  /\ new.memberId = old.memberId
                          /\ new.password = old.password
                          /\ nonEmptyString(old.name) => new.name = old.name
                          /\ nextMemberId' = nextMemberId
                 ELSE /\ mapGet(membersByEmail', key).memberId \notin memberIds(membersByEmail)
                      /\ mapGet(membersByEmail', key).password = Null
              /\ mapHas(loginState', key)
              /\ mapGet(loginState', key) = 1]_vars

\* C10: End Session is always answered 200 with isLogined 0; it sets the login
\* state of the email's key to false when that key has an account and changes
\* nothing otherwise; it changes no other login flag and no record; repeating
\* it changes nothing more.
C10_EndSession ==
    [][req'.op = "POST /Home"
       => /\ res' = [status |-> 200, body |-> [isLogined |-> 0]]
          /\ UNCHANGED <<nextMemberId, membersByEmail>>
          /\ IF nonEmptyString(req'.email) /\ mapHas(membersByEmail, emailKey(req'.email))
             THEN /\ Len(loginState') = Len(loginState)
                  /\ \A i \in 1..Len(loginState) :
                        /\ loginState'[i].key = loginState[i].key
                        /\ loginState'[i].val = IF loginState[i].key = emailKey(req'.email)
                                                THEN 0 ELSE loginState[i].val
                  /\ mapGet(loginState', emailKey(req'.email)) = 0
             ELSE UNCHANGED loginState
          /\ (req.op = "POST /Home" /\ req.email = req'.email) => UNCHANGED accountStores]_vars

\* End Session for an account has left another account logged in
C10_Witness ==
    /\ req.op = "POST /Home"
    /\ nonEmptyString(req.email)
    /\ mapHas(membersByEmail, emailKey(req.email))
    /\ mapGet(loginState, emailKey(req.email)) = 0
    /\ \E i \in 1..Len(loginState) :
          loginState[i].key # emailKey(req.email) /\ loginState[i].val = 1

-----------------------------------------------------------------------------
(* Identifiers *)

\* C11: in every step, whichever operation takes it, each record already in
\* the account store keeps its place, key and memberId, and each record the
\* step adds has a memberId strictly greater than the memberId of every record
\* created before it; so memberIds are pairwise distinct and ascend in
\* creation order.
C11_IdsAscendAndNeverChange ==
    [][/\ Len(membersByEmail') >= Len(membersByEmail)
       /\ \A i \in 1..Len(membersByEmail) :
            /\ membersByEmail'[i].key = membersByEmail[i].key
            /\ membersByEmail'[i].val.memberId = membersByEmail[i].val.memberId
       /\ \A j \in (Len(membersByEmail) + 1)..Len(membersByEmail') :
            \A id \in memberIds(membersByEmail) : membersByEmail'[j].val.memberId > id
       /\ \A i, j \in 1..Len(membersByEmail') :
            i < j => membersByEmail'[i].val.memberId < membersByEmail'[j].val.memberId]_vars

\* a Register has created the second record after external authentication
\* created the first, and the two carry the ids 1 and 2 in that order
C11_Witness ==
    /\ req.op = "POST /SignUp"
    /\ res.status = 200
    /\ Len(membersByEmail) = 2
    /\ membersByEmail[1].val.password = Null
    /\ membersByEmail[1].val.memberId = 1
    /\ membersByEmail[2].val.memberId = 2
    /\ res.body.memberId = 2

-----------------------------------------------------------------------------
(* The two normalizers on their own *)

\* the longest todo array given to normalizeTodo; todo strings are one longer
MaxTodoLen == 2

replaceAt(s, i, c) == [s EXCEPT ![i] = c]
removeAt(s, i) == SubSeq(s, 1, i - 1) \o SubSeq(s, i + 1, Len(s))

\* texts around the date pattern: dates, a date with one character replaced
\* by a digit, a hyphen, a letter or a blank, with one character missing, or
\* with one character more in front or behind
DateTexts ==
    {Date1, Date2, NotADate, <<>>}
    \cup {replaceAt(Date1, i, c) : i \in 1..Len(Date1), c \in {"0", "-", "a", " "}}
    \cup {removeAt(Date1, i) : i \in 1..Len(Date1)}
    \cup {<<c>> \o Date1 : c \in {"0", "-"}}
    \cup {Date1 \o <<c>> : c \in {"0", "-"}}

\* values given to normalizeDate: the texts, bare and padded, and non-strings
DateInputs ==
    {JSStr(pad(s, k)) : s \in DateTexts, k \in 0..MaxPad}
    \cup {Undefined, Null, JSNum(<<"2", "0", "2", "4">>), JSArr(<<EStr(Date1)>>)}

TodoChars == {"a", ",", " "}
TodoElems ==
    {EStr(<<" ", "a">>), EStr(<<"b", ",", "c">>), EStr(<<>>), EStr(<<"\t">>), ENum(<<"5">>), ENull}

\* the sequences over a set of length 0..n
seqsUpTo(S, n) == {<<>>} \cup UNION {[1..k -> S] : k \in 1..n}

\* values given to normalizeTodo: arrays, comma-separated strings, others
TodoInputs ==
    {JSArr(a) : a \in seqsUpTo(TodoElems, MaxTodoLen)}
    \cup {JSStr(s) : s \in seqsUpTo(TodoChars, MaxTodoLen + 1)}
    \cup {Undefined, Null, JSNum(<<"5">>)}

\* a call of a normalizer about to be made: its name and its argument
InitNormalize ==
    /\ nextMemberId = 1
    /\ membersByEmail = <<>>
    /\ loginState = <<>>
    /\ diaryByDate = <<>>
    /\ google = [token |-> 0, userinfo |-> 0, verify |-> 0]
    /\ req \in {[op |-> "normalizeDate", input |-> v, pass |-> 1] : v \in DateInputs}
               \cup {[op |-> "normalizeTodo", input |-> v, pass |-> 1] : v \in TodoInputs}
    /\ res = noResponse

\* normalizeDate(input) returns
ApplyNormalizeDate ==
    /\ req.op = "normalizeDate"
    /\ res = noResponse
    /\ res' = [status |-> 0, returned |-> normalizeDate(req.input)]
    /\ UNCHANGED <<stores, google, req>>

\* normalizeTodo(input) returns
ApplyNormalizeTodo ==
    /\ req.op = "normalizeTodo"
    /\ res = noResponse
    /\ res' = [status |-> 0, returned |-> normalizeTodo(req.input)]
    /\ UNCHANGED <<stores, google, req>>

\* the array normalizeTodo returned is given to normalizeTodo again, as it is
\* when a client sends back the todo list it read
ReapplyNormalizeTodo ==
    /\ req.op = "normalizeTodo"
    /\ req.pass = 1
    /\ res # noResponse
    /\ req' = [op |-> "normalizeTodo", input |-> res.returned, pass |-> 2]
    /\ res' = [status |-> 0, returned |-> normalizeTodo(res.returned)]
    /\ UNCHANGED <<stores, google>>

NormalizeNext == ApplyNormalizeDate \/ ApplyNormalizeTodo \/ ReapplyNormalizeTodo
SpecNormalize == InitNormalize /\ [][NormalizeNext]_vars

\* four digits, a hyphen, two digits, a hyphen, two digits
isDateText(s) ==
    /\ Len(s) = 10
    /\ \A i \in 1..10 : IF i \in {5, 8} THEN s[i] = "-" ELSE s[i] \in Digits

\* where in s a date text stands with nothing but whitespace before and after
dateStarts(s) ==
    {i \in 1..(Len(s) - 9) :
        /\ isDateText(SubSeq(s, i, i + 9))
        /\ \A j \in 1..(i - 1) : s[j] \in Whitespace
        /\ \A j \in (i + 10)..Len(s) : s[j] \in Whitespace}

\* C12: normalizeDate returns the date text for every string that is a date
\* text (four digits, hyphen, two digits, hyphen, two digits, no calendar
\* check) with nothing but whitespace around it, the surrounding whitespace
\* removed, and returns null for every other input: a wrong length, a
\* non-digit, an empty or blank string, a non-string.
C12_DateTextInsideWhitespace ==
    (req.op = "normalizeDate" /\ res # noResponse)
    => IF req.input.t = "string" /\ dateStarts(req.input.s) # {}
       THEN \E i \in dateStarts(req.input.s) :
                res.returned = JSStr(SubSeq(req.input.s, i, i + 9))
       ELSE res.returned = Null

\* C12 as stated: the input is returned unchanged when it is itself a date
\* text, and every other input, a padded date text included, gives null.
C12_OnlyStringsThatMatchThemselves ==
    (req.op = "normalizeDate" /\ res # noResponse)
    => IF req.input.t = "string" /\ isDateText(req.input.s)
       THEN res.returned = req.input
       ELSE res.returned = Null

\* a date text that is no calendar date, padded on both sides, came back
\* without the padding
C12_Witness ==
    /\ req.op = "normalizeDate"
    /\ req.input = JSStr(pad(replaceAt(Date1, 9, "0"), MaxPad))
    /\ res # noResponse
    /\ res.returned = JSStr(replaceAt(Date1, 9, "0"))

\* C13: whatever value normalizeTodo is given (an array, a string, anything
\* else), giving the array it returns to normalizeTodo again returns the same
\* array, so a todo list read back and sent again is stored as it was.
C13_NormalizeTodoIdempotent ==
    (req.op = "normalizeTodo" /\ req.pass = 2) => res.returned = req.input

\* the second call was given, and returned, the two trimmed items that the
\* first call made of its argument
C13_Witness ==
    /\ req.op = "normalizeTodo"
    /\ req.pass = 2
    /\ req.input = JSArr(<<EStr(<<"a">>), EStr(<<"a">>)>>)
    /\ res.returned = req.input

-----------------------------------------------------------------------------
(* External authentication interleaved with other requests *)

\* the places of the records whose email has the given lowercase-trimmed form
recordsFor(members, key) == {i \in 1..Len(members) : emailKey(members[i].val.email) = key}

\* C14: whatever requests ran while an external-authentication handler was
\* suspended, the account store never holds two records for one
\* lowercase-trimmed email; and when the handler resumes and succeeds for an
\* email that has a record by then (one a Register created meanwhile
\* included), that record keeps its memberId and credential, no record is
\* added and the id counter stays where it is.
C14_OneRecordPerEmailAcrossSuspension ==
    [][/\ \A i, j \in 1..Len(membersByEmail') :
            emailKey(membersByEmail'[i].val.email) = emailKey(membersByEmail'[j].val.email)
            => i = j
       /\ (/\ req'.op = "POST /auth/google"
           /\ req'.step = "userinfo"
           /\ res'.status = 200
           /\ recordsFor(membersByEmail, emailKey(JSStr(String(req'.input.email)))) # {})
          => /\ \A i \in recordsFor(membersByEmail, emailKey(JSStr(String(req'.input.email)))) :
                  /\ membersByEmail'[i].val.memberId = membersByEmail[i].val.memberId
                  /\ membersByEmail'[i].val.password = membersByEmail[i].val.password
             /\ Len(membersByEmail') = Len(membersByEmail)
             /\ nextMemberId' = nextMemberId]_vars

\* C15: a Login, with whatever non-empty password, for an email whose record
\* external authentication created (a record without local credential) is
\* answered 401 and leaves every login flag as it was.
C15_NoLocalLoginWithoutCredential ==
    [][(/\ req'.op = "POST /Login"
        /\ nonEmptyString(req'.email)
        /\ nonEmptyString(req'.password)
        /\ mapHas(membersByEmail, emailKey(req'.email))
        /\ mapGet(membersByEmail, emailKey(req'.email)).password = Null)
       => (res'.status = 401 /\ loginState' = loginState)]_vars

-----------------------------------------------------------------------------
(* PUT on a date without entry *)

\* C16: a PUT /diary/d for a valid date that has no entry stores, whatever the
\* body, the entry that POST /diary/d stores for that body (the normalized
\* triple) and answers with the flags POST answers with; when the body
\* provides no field, every Read and the Summarize result are what they were
\* before the request.
C16_PutOnAbsentDateIsPost ==
    [][(/\ req'.op = "PUT /diary"
        /\ ~falsy(normalizeDate(req'.date))
        /\ ~mapHas(diaryByDate, normalizeDate(req'.date).s))
       => LET key == normalizeDate(req'.date).s
              w == writtenTriple(req'.body)
          IN  /\ res'.status = 200
              /\ mapHas(diaryByDate', key)
              /\ mapGet(diaryByDate', key) = w
              /\ res'.body = [haveContents |-> w.contents.s # <<>>,
                              haveTodos |-> Len(w.todo.a) > 0]
              /\ bodyOrEmpty(req'.body) = Body(Undefined, Undefined, Undefined)
                 => /\ getHaveArrays' = getHaveArrays
                    /\ \A d \in {Date1, Date2} :
                         entryAt(diaryByDate', d) = entryAt(diaryByDate, d)]_vars

\* a PUT without any field has put the default entry behind another date's
\* entry, which holds contents and a todo list
C16_Witness ==
    /\ req.op = "PUT /diary"
    /\ bodyOrEmpty(req.body) = Body(Undefined, Undefined, Undefined)
    /\ res.status = 200
    /\ res.body = [haveContents |-> FALSE, haveTodos |-> FALSE]
    /\ Len(diaryByDate) = 2
    /\ diaryByDate[2].key = normalizeDate(req.date).s
    /\ diaryByDate[2].val = emptyEntry
    /\ hasContents(diaryByDate[1].val) /\ hasTodos(diaryByDate[1].val)

-----------------------------------------------------------------------------
(* Failing external authentication *)

\* C17: every failing outcome of POST /auth/google is answered with its
\* status (400 for a missing code, 500 for missing configuration or a failed
\* upstream call, 401 for a token response without access token or a userinfo
\* without email), and every step of the handler that does not answer 200
\* leaves the account records, the login flags and the id counter as they are.
C17_FailedExternalAuthChangesNothing ==
    [][req'.op = "POST /auth/google"
       => /\ (req'.step = "request" /\ ~nonEmptyString(req'.input.code)) => res'.status = 400
          /\ (req'.step = "request" /\ nonEmptyString(req'.input.code) /\ ~req'.input.env)
             => res'.status = 500
          /\ (req'.step # "request" /\ req'.input.threw) => res'.status = 500
          /\ (req'.step = "token" /\ ~req'.input.threw /\ falsy(req'.input.access_token))
             => res'.status = 401
          /\ (req'.step = "userinfo" /\ ~req'.input.threw /\ falsy(req'.input.email))
             => res'.status = 401
          /\ res'.status # 200 => UNCHANGED accountStores]_vars

\* a userinfo without email has been answered 401 while a record exists and
\* is logged in
C17_Witness ==
    /\ req.op = "POST /auth/google"
    /\ req.step = "userinfo"
    /\ ~req.input.threw
    /\ res.status = 401
    /\ Len(membersByEmail) > 0
    /\ \E i \in 1..Len(loginState) : loginState[i].val = 1

\* the same for the earlier POST /Login/google of part_000: a missing id
\* token and a payload without email are answered 400, a failed verification
\* 401, and every step that does not answer 200 leaves the account records,
\* the login flags and the id counter as they are
LoginGoogleFailureChangesNothing ==
    [][req'.op = "POST /Login/google"
       => /\ (req'.step = "request" /\ falsy(req'.input)) => res'.status = 400
          /\ (req'.step = "verify" /\ req'.input.threw) => res'.status = 401
          /\ (req'.step = "verify" /\ ~req'.input.threw /\ falsy(req'.input.email))
             => res'.status = 400
          /\ res'.status # 200 => UNCHANGED accountStores]_vars

-----------------------------------------------------------------------------
(* Keys of the two account maps *)

\* C18: every key of the account store is a lowercase string without
\* surrounding whitespace and is the email field of its record, whichever
\* operation created the record; so no two records have emails that differ
\* only by letter case or surrounding whitespace.
C18_KeysLowercaseTrimmed ==
    /\ \A i \in 1..Len(membersByEmail) :
         /\ membersByEmail[i].key = toLowerCase(membersByEmail[i].key)
         /\ noSurroundingWhitespace(membersByEmail[i].key)
         /\ membersByEmail[i].val.email = JSStr(membersByEmail[i].key)
    /\ \A i, j \in 1..Len(membersByEmail) :
         emailKey(membersByEmail[i].val.email) = emailKey(membersByEmail[j].val.email) => i = j

\* C20: in every state the login-state map and the account store have the
\* same keys, so a login flag that is true belongs to an existing record.
C20_SameKeys ==
    /\ mapKeys(loginState) = mapKeys(membersByEmail)
    /\ \A i \in 1..Len(loginState) :
         loginState[i].val = 1 => mapHas(membersByEmail, loginState[i].key)

\* a record made by Register is logged out and one made by external
\* authentication is logged in, after a Logout for an unknown email
C20_Witness ==
    /\ req.op = "POST /Home"
    /\ ~mapHas(membersByEmail, emailKey(req.email))
    /\ Len(membersByEmail) = 2
    /\ \E i, j \in 1..2 :
         /\ membersByEmail[i].val.password = Null
         /\ mapGet(loginState, membersByEmail[i].key) = 1
         /\ membersByEmail[j].val.password # Null
         /\ mapGet(loginState, membersByEmail[j].key) = 0

-----------------------------------------------------------------------------
(* What may change the diary store *)

\* C19: a step changes the diary store only when it is a POST or PUT
\* /diary/:date with a valid date, and then only at that date: every date
\* stored before is still stored, in its place, every other date's entry is
\* what it was, and the only date that may be added is the request's. A Read
\* of a date without entry answers the default entry and stores nothing;
\* GET /Home and every account operation leave the diary store as it is.
C19_DiaryFrame ==
    [][/\ diaryByDate' # diaryByDate
          => /\ req'.op \in {"POST /diary", "PUT /diary"}
             /\ ~falsy(normalizeDate(req'.date))
             /\ Len(diaryByDate') >= Len(diaryByDate)
             /\ \A i \in 1..Len(diaryByDate) :
                  /\ diaryByDate'[i].key = diaryByDate[i].key
                  /\ diaryByDate'[i].key # normalizeDate(req'.date).s
                     => diaryByDate'[i].val = diaryByDate[i].val
             /\ \A j \in (Len(diaryByDate) + 1)..Len(diaryByDate') :
                  diaryByDate'[j].key = normalizeDate(req'.date).s
       /\ (/\ req'.op = "GET /diary"
           /\ ~falsy(normalizeDate(req'.date))
           /\ ~mapHas(diaryByDate, normalizeDate(req'.date).s))
          => /\ res'.status = 200
             /\ res'.body = emptyEntry
             /\ ~mapHas(diaryByDate', normalizeDate(req'.date).s)]_vars

\* a Read of a date without entry has answered the default entry while
\* another date has a non-empty entry and an account exists, and the date read
\* still has no entry
C19_Witness ==
    /\ req.op = "GET /diary"
    /\ ~falsy(normalizeDate(req.date))
    /\ res.status = 200
    /\ res.body = emptyEntry
    /\ ~mapHas(diaryByDate, normalizeDate(req.date).s)
    /\ Len(diaryByDate) = 1
    /\ diaryByDate[1].val # emptyEntry
    /\ Len(membersByEmail) > 0

=============================================================================
